---- MODULE Spec2Model ----
(***************************************************************************)
(* State-machine model of sccpt: the ScreenshotWorker lifecycle and its    *)
(* background loop (src/src/sccpt/capture.py) and the cache budget         *)
(* enforcement _manage_cache_size (src/src/sccpt/utils.py); the capture    *)
(* strategies of _take_screenshot; and one call of capture(): message      *)
(* segment, classification, final path, move, metadata and cache pass;     *)
(* the CaptureManager slot and the MCP server's monitoring marker          *)
(* (src/mcp_servers/mcp_server_fastmcp.py); and cache passes interleaved   *)
(* with other writers.                                                     *)
(*                                                                         *)
(* Time is counted in ticks of 10 ms, the loop's sleep slice.              *)
(* Verbose printing only writes to the console and is not modelled.        *)
(***************************************************************************)
EXTENDS Integers, Sequences, FiniteSets, TLC

\* ------------------------------------------------------------------ bounds
MaxSeconds == 2
SleepJitter == 10
MaxSize == 2
MaxMtime == 2
MaxBudget == 3
MaxRuns == 3
MaxMillis == 1
MaxWorkers == 2
MaxShots == 1
TotalPixels == 20

\* ------------------------------------------------------ program constants
SleepSlice == 1
SecondTicks == 100
JoinTimeout == 200
TestInterval == 50
TestRun == 500
DefaultInterval == 100
DefaultRun == 250
SegmentLimit == 50
LongMessage == 100
MicrosPerMilli == 1000

MaxTime == MaxSeconds * SecondTicks

None == "None"

VARIABLES
    running,           \* ScreenshotWorker.running
    session_id,        \* ScreenshotWorker.session_id
    screenshot_count,  \* ScreenshotWorker.screenshot_count
    worker_thread,     \* ScreenshotWorker.worker_thread: 0 is None, else the id of the last Thread
    interval_sec,      \* ScreenshotWorker.interval_sec, in ticks
    on_capture,        \* whether an on_capture callback is configured
    on_error,          \* whether an on_error callback is configured
    threads,           \* the Thread objects created by start(), by slot
    now,               \* the clock read by time.time()
    callerpc,          \* position of the thread that calls start() and stop()
    join_deadline,     \* when the join of stop() gives up
    run_length,        \* how long the caller sleeps between start() and stop() (timed runs)
    last,              \* the operation performed by the last step
    succ               \* successful attempts completed since the last effective start()

VARIABLES
    dir,               \* the cache directory: its entries by name
    dir_exists,        \* cache_dir.exists()
    max_size_bytes,    \* the budget of _manage_cache_size
    cache_pc,          \* "ready" before the call of _manage_cache_size, "returned" after it
    before,            \* the directory as it was when _manage_cache_size was called
    failed,            \* the paths whose unlink() raised during the call
    written,           \* the files other writers moved in since a call began its scan
    passes             \* the calls of _manage_cache_size that run side by side

VARIABLES
    mgr,               \* the CaptureManager: its slot, the workers it created, its last call
    mcp                \* the MCP server: the .monitoring marker file and its last reply

VARIABLES
    cap,               \* the frame of a call of capture(): its arguments, locals and outcome
    env,               \* the platform a capture runs on: what the tools it tries would do
    shot               \* the outcome of one _take_screenshot over its strategies

cacheVars == <<dir, dir_exists, max_size_bytes, cache_pc, before, failed, written, passes>>

callVars == <<cap, env, shot>>

mgrVars == <<mgr, mcp>>

workerVars == <<running, session_id, screenshot_count, worker_thread, interval_sec,
                on_capture, on_error, threads, now, callerpc, join_deadline,
                run_length, last, succ>>

\* a join gives up only after JoinTimeout, so at most one more loop outlives its stop()
\* every JoinTimeout ticks; the slot of a Thread whose loop has returned is reused
MaxThreads == MaxTime \div JoinTimeout + 1

ThreadIds == 1..MaxThreads

\* the inputs of start(session_id): absent, empty, explicit
SessionArgs == {None, "", "s1"}

\* a Thread that is not alive: not created yet, or its loop has returned; the fields are
\* the locals of _worker_loop and _take_screenshot, cleared when they go out of use, and
\* the time at which the loop's latest capture attempt began (-1 before its first)
Exited == [pc |-> "done", current_time |-> 0, next_capture_time |-> 0, wake |-> 0,
           filepath |-> None, cnt |-> 0, started |-> -1]

\* what the last step did: the operation, a flag (running before a start/stop, raised for
\* a callback), its argument, and the callback the loop invoked in that step
Event(op, flag, arg, notified) == [op |-> op, flag |-> flag, arg |-> arg, notified |-> notified]

LoopOp == Event("loop", FALSE, None, "none")

\* datetime.now().strftime("%Y%m%d_%H%M%S"): the clock at one-second resolution
Strftime(t) == "T" \o ToString(t \div SecondTicks)

\* Python truthiness of the session_id argument: None and "" are falsy
Falsy(s) == s \in {None, ""}

\* the default taken only for an absent argument
SessionIfNone(sid, t) == IF sid = None THEN Strftime(t) ELSE sid

\* session_id or datetime.now().strftime(...)
SessionOr(sid, t) == IF Falsy(sid) THEN Strftime(t) ELSE sid

\* Thread.is_alive()
Alive(t) == threads[t].pc # "done"

\* the slot the next Thread object takes
FreeSlot == CHOOSE t \in ThreadIds : ~Alive(t) /\ \A u \in ThreadIds : ~Alive(u) => t <= u

\* a capture attempt of thread t is in flight: it is inside _take_screenshot
InFlight(t) == threads[t].pc \in {"take", "backend", "incr"}

\* ---------------------------------------------------------------- start()
\* the body of start() on a worker that is not running
StartFresh(sid) ==
    /\ \E t \in ThreadIds : ~Alive(t)
    /\ running' = TRUE
    /\ screenshot_count' = 0
    /\ session_id' = SessionOr(sid, now)
    /\ worker_thread' = FreeSlot
    /\ threads' = [threads EXCEPT ![FreeSlot].pc = "start"]
    /\ succ' = 0

\* start() without its "already running" return
StartAlways(sid) ==
    /\ callerpc = "idle"
    /\ last' = Event("start", running, sid, "none")
    /\ StartFresh(sid)
    /\ UNCHANGED <<interval_sec, on_capture, on_error, now, callerpc, join_deadline, run_length,
                   cacheVars, callVars, mgrVars>>

Start(sid) ==
    /\ callerpc = "idle"
    /\ last' = Event("start", running, sid, "none")
    /\ IF running
         THEN UNCHANGED <<running, screenshot_count, session_id, worker_thread, threads, succ>>
         ELSE StartFresh(sid)
    /\ UNCHANGED <<interval_sec, on_capture, on_error, now, callerpc, join_deadline, run_length,
                   cacheVars, callVars, mgrVars>>

\* ----------------------------------------------------------------- stop()
\* stop() without its "not running" return
StopAlways ==
    /\ callerpc = "idle"
    /\ last' = Event("stop", running, None, "none")
    /\ running' = FALSE
    /\ IF worker_thread # 0 /\ Alive(worker_thread)
         THEN /\ callerpc' = "joining"
              /\ join_deadline' = now + JoinTimeout
         ELSE UNCHANGED <<callerpc, join_deadline>>
    /\ UNCHANGED <<session_id, screenshot_count, worker_thread, interval_sec, on_capture,
                   on_error, threads, now, run_length, succ, cacheVars, callVars, mgrVars>>

Stop ==
    /\ callerpc = "idle"
    /\ last' = Event("stop", running, None, "none")
    /\ IF ~running
         THEN UNCHANGED <<running, callerpc, join_deadline>>
         ELSE /\ running' = FALSE
              /\ IF worker_thread # 0 /\ Alive(worker_thread)
                   THEN /\ callerpc' = "joining"
                        /\ join_deadline' = now + JoinTimeout
                   ELSE UNCHANGED <<callerpc, join_deadline>>
    /\ UNCHANGED <<session_id, screenshot_count, worker_thread, interval_sec, on_capture,
                   on_error, threads, now, run_length, succ, cacheVars, callVars, mgrVars>>

\* worker_thread.join(timeout=2) returns because the loop has exited
JoinReturn ==
    /\ callerpc = "joining"
    /\ ~Alive(worker_thread)
    /\ callerpc' = "idle"
    /\ join_deadline' = 0
    /\ last' = Event("join", FALSE, "exited", "none")
    /\ UNCHANGED <<running, session_id, screenshot_count, worker_thread, interval_sec,
                   on_capture, on_error, threads, now, run_length, succ, cacheVars, callVars, mgrVars>>

\* worker_thread.join(timeout=2) gives up after 2 s: the loop is still inside a capture
JoinTimesOut ==
    /\ callerpc = "joining"
    /\ threads[worker_thread].pc = "backend"
    /\ now >= join_deadline
    /\ callerpc' = "idle"
    /\ join_deadline' = 0
    /\ last' = Event("join", FALSE, "timeout", "none")
    /\ UNCHANGED <<running, session_id, screenshot_count, worker_thread, interval_sec,
                   on_capture, on_error, threads, now, run_length, succ, cacheVars, callVars, mgrVars>>

\* ----------------------------------------------------------- _worker_loop
\* the next capture scheduled three intervals away
NextCaptureThreeIntervals(current_time, interval) == current_time + 3 * interval

\* next_capture_time = current_time + self.interval_sec
NextCaptureTime(current_time, interval) == current_time + interval

\* the next capture scheduled from the time read after the attempt
RescheduleFromNow(th) ==
    [th EXCEPT !.pc = "sleep",
               !.next_capture_time = NextCaptureTime(now, interval_sec),
               !.wake = now + SleepSlice,
               !.current_time = 0, !.filepath = None, !.cnt = 0]

\* the end of a loop iteration that attempted a capture: schedule the next one, then
\* time.sleep(0.01)
Reschedule(th) ==
    [th EXCEPT !.pc = "sleep",
               !.next_capture_time = NextCaptureTime(th.current_time, interval_sec),
               !.wake = now + SleepSlice,
               !.current_time = 0, !.filepath = None, !.cnt = 0]

ThreadFrame == UNCHANGED <<running, session_id, worker_thread, interval_sec, on_capture,
                           on_error, now, callerpc, join_deadline, run_length, cacheVars,
                           callVars, mgrVars>>

\* next_capture_time = time.time()
LoopEnter(t) ==
    /\ threads[t].pc = "start"
    /\ threads' = [threads EXCEPT ![t].pc = "while", ![t].next_capture_time = now]
    /\ last' = LoopOp
    /\ UNCHANGED <<screenshot_count, succ>>
    /\ ThreadFrame

\* the loop that does not test the flag: while True
LoopTestForever(t) ==
    /\ threads[t].pc = "while"
    /\ threads' = [threads EXCEPT ![t] =
         IF now >= @.next_capture_time
           THEN [@ EXCEPT !.pc = "take", !.current_time = now, !.started = now]
           ELSE [@ EXCEPT !.pc = "sleep", !.wake = now + SleepSlice]]
    /\ last' = LoopOp
    /\ UNCHANGED <<screenshot_count, succ>>
    /\ ThreadFrame

\* while self.running: current_time = time.time(); if current_time >= next_capture_time
LoopTest(t) ==
    /\ threads[t].pc = "while"
    /\ threads' = [threads EXCEPT ![t] =
         IF ~running THEN Exited
         ELSE IF now >= @.next_capture_time
           THEN [@ EXCEPT !.pc = "take", !.current_time = now, !.started = now]
           ELSE [@ EXCEPT !.pc = "sleep", !.wake = now + SleepSlice]]
    /\ last' = LoopOp
    /\ UNCHANGED <<screenshot_count, succ>>
    /\ ThreadFrame

\* f"{self.session_id}_{self.screenshot_count:04d}_{timestamp}.{ext}"
FileName(sid, n, ts) == sid \o "_" \o ToString(n) \o "_" \o ToString(ts)

\* _take_screenshot begins: the filename is built from the worker's fields
TakeScreenshot(t) ==
    /\ threads[t].pc = "take"
    /\ threads' = [threads EXCEPT ![t].pc = "backend",
                                  ![t].filepath = FileName(session_id, screenshot_count, now)]
    /\ last' = LoopOp
    /\ UNCHANGED <<screenshot_count, succ>>
    /\ ThreadFrame

\* what the loop does with a None from _take_screenshot: nothing, the except branch
\* that calls on_error is not entered
FailureNotified == "none"

\* the capture strategies return: a file was written ("file"), none was ("nofile", return
\* None), or an exception was caught ("exception", return None)
BackendReturn(t, outcome) ==
    /\ threads[t].pc = "backend"
    /\ IF outcome = "file"
         THEN /\ threads' = [threads EXCEPT ![t].pc = "incr", ![t].cnt = screenshot_count]
              /\ last' = LoopOp
         ELSE /\ threads' = [threads EXCEPT ![t] = Reschedule(@)]
              /\ last' = Event("attempt_failed", FALSE, outcome, FailureNotified)
    /\ UNCHANGED <<screenshot_count, succ>>
    /\ ThreadFrame

\* self.screenshot_count += 1; return str(filepath)
IncrementCount(t) ==
    /\ threads[t].pc = "incr"
    /\ screenshot_count' = threads[t].cnt + 1
    /\ succ' = succ + 1
    /\ threads' = [threads EXCEPT ![t] =
         IF on_capture THEN [@ EXCEPT !.pc = "callback", !.cnt = 0] ELSE Reschedule(@)]
    /\ last' = Event("attempt_ok", FALSE, threads[t].filepath, "none")
    /\ ThreadFrame

\* on_capture called outside any try: a raise ends the loop
AfterOnCaptureUncaught(th, raises) == IF raises THEN Exited ELSE Reschedule(th)

\* self.on_capture(screenshot_path) inside try/except Exception: a raise is caught
AfterOnCapture(th, raises) == Reschedule(th)

OnCapture(t, raises) ==
    /\ threads[t].pc = "callback"
    /\ threads' = [threads EXCEPT ![t] = AfterOnCapture(@, raises)]
    /\ last' = Event("on_capture", raises, threads[t].filepath, "on_capture")
    /\ UNCHANGED <<screenshot_count, succ>>
    /\ ThreadFrame

\* time.sleep(0.01) returns
SleepReturn(t) ==
    /\ threads[t].pc = "sleep"
    /\ now >= threads[t].wake
    /\ threads' = [threads EXCEPT ![t].pc = "while", ![t].wake = 0]
    /\ last' = LoopOp
    /\ UNCHANGED <<screenshot_count, succ>>
    /\ ThreadFrame

\* one second passes: in the lifecycle runs the clock moves in whole seconds, so a
\* time.sleep(0.01) that has begun returns after the next such step
TickSecond ==
    /\ now + SecondTicks <= MaxTime
    /\ now' = now + SecondTicks
    /\ last' = Event("clock", FALSE, None, "none")
    /\ UNCHANGED <<running, session_id, screenshot_count, worker_thread, interval_sec,
                   on_capture, on_error, threads, callerpc, join_deadline, run_length, succ,
                   cacheVars, callVars, mgrVars>>

\* ----------------------------------------------------- _manage_cache_size
\* the names an entry of the cache directory can have
Names == {"a.jpg", "b.png", "c.jpg", "notes.txt", "sub.png"}

\* the entry a capture moved into the directory gets, whatever its derived name
CaptureName == "capture.jpg"

\* the entry of a later capture moved there under another derived name
LaterName == "later.jpg"

\* the suffix a glob pattern matches
Ext(n) == CASE n \in {"a.jpg", "c.jpg", CaptureName, LaterName} -> "jpg"
            [] n \in {"b.png", "sub.png"} -> "png"
            [] OTHER -> "txt"

\* file_path.is_file(): "sub.png" names a subdirectory
IsFile(n) == n # "sub.png"

\* no entry of that name
NoFile == [present |-> FALSE, size |-> 0, mtime |-> 0, locked |-> FALSE]

\* the calls of _manage_cache_size that can run at the same time
PassIds == {1, 2}

\* a call not begun
IdlePass == [pc |-> "idle", listing |-> <<>>, files |-> <<>>, total |-> 0, failed |-> {}]

NoPasses == [p \in PassIds |-> IdlePass]

\* a call that is over, returned ("done") or left by an exception ("raised"): its
\* locals are gone
Ended(how) == [IdlePass EXCEPT !.pc = how]

\* the capture files of a directory: regular files named *.jpg or *.png
CaptureFiles(d) ==
    {n \in DOMAIN d : d[n].present /\ IsFile(n) /\ Ext(n) \in {"jpg", "png"}}

RECURSIVE SetSize(_, _)
\* the sum of st_size over a set of entries
SetSize(d, S) == IF S = {} THEN 0
                 ELSE LET n == CHOOSE x \in S : TRUE IN d[n].size + SetSize(d, S \ {n})

\* the orders in which the directory can list the entries a pattern matches
Listings(d, ext) ==
    LET S == {n \in DOMAIN d : d[n].present /\ Ext(n) = ext}
    IN {l \in [1..Cardinality(S) -> S] : \A i, j \in 1..Cardinality(S) : i # j => l[i] # l[j]}

\* for file_path in cache_dir.glob("*.<ext>"): if file_path.is_file():
\*     files.append((file_path, size, mtime))
RECURSIVE Glob(_, _)
Glob(d, listing) ==
    IF listing = <<>> THEN <<>>
    ELSE LET n == Head(listing)
         IN (IF IsFile(n) THEN << <<n, d[n].size, d[n].mtime>> >> ELSE <<>>)
              \o Glob(d, Tail(listing))

RECURSIVE TotalSize(_)
\* total_size += size, over the scanned files
TotalSize(files) == IF files = <<>> THEN 0 ELSE Head(files)[2] + TotalSize(Tail(files))

RECURSIVE InsertByMtime(_, _)
\* x goes behind every tuple that is not newer than it: the sort is stable
InsertByMtime(sorted, x) ==
    IF sorted = <<>> THEN <<x>>
    ELSE IF Head(sorted)[3] <= x[3]
      THEN <<Head(sorted)>> \o InsertByMtime(Tail(sorted), x)
      ELSE <<x>> \o sorted

RECURSIVE SortFrom(_, _)
SortFrom(sorted, rest) ==
    IF rest = <<>> THEN sorted
    ELSE SortFrom(InsertByMtime(sorted, Head(rest)), Tail(rest))

\* the files left in the order of the scan
Unsorted(files) == files

\* files.sort(key=lambda x: x[2])
SortByMtime(files) == SortFrom(<<>>, files)

\* the size taken off the total outside the try: also when unlink() raised
UnlinkAlwaysSubtracts(st, x) ==
    IF st.dir[x[1]].locked
      THEN [st EXCEPT !.failed = @ \cup {x[1]}, !.total = @ - x[2]]
      ELSE [st EXCEPT !.dir[x[1]] = NoFile, !.total = @ - x[2]]

\* try: file_path.unlink(); total_size -= size   except: pass
\* unlink() raises for a file in use and for one that is no longer there
Unlink(st, x) ==
    IF st.dir[x[1]].locked \/ ~st.dir[x[1]].present
      THEN [st EXCEPT !.failed = @ \cup {x[1]}]
      ELSE [st EXCEPT !.dir[x[1]] = NoFile, !.total = @ - x[2]]

RECURSIVE Evict(_, _, _)
\* the loop without its break: every scanned file is unlinked once the scan is over budget
EvictWithoutBreak(st, files, max) ==
    LET gone == SelectSeq(files, LAMBDA x : ~st.dir[x[1]].locked)
        kept == SelectSeq(files, LAMBDA x : st.dir[x[1]].locked)
    IN [dir |-> [n \in DOMAIN st.dir |->
                   IF \E i \in 1..Len(gone) : gone[i][1] = n THEN NoFile ELSE st.dir[n]],
        total |-> st.total - TotalSize(gone),
        failed |-> st.failed \cup {kept[i][1] : i \in 1..Len(kept)}]

\* for file_path, size, _ in files: if total_size <= max_size_bytes: break ...
Evict(st, files, max) ==
    IF files = <<>> \/ st.total <= max THEN st
    ELSE Evict(Unlink(st, Head(files)), Tail(files), max)

\* a pass that scans and evicts nothing
CachePassWithoutEviction(d, max, jpgs, pngs) == [dir |-> d, failed |-> {}]

\* the scan and the eviction of _manage_cache_size on a directory that exists, listed
\* in the given orders: the directory left and the paths whose unlink() raised
CachePass(d, max, jpgs, pngs) ==
    LET files == Glob(d, jpgs) \o Glob(d, pngs)
        total_size == TotalSize(files)
        st == Evict([dir |-> d, total |-> total_size, failed |-> {}],
                    SortByMtime(files), max)
    IN IF total_size <= max THEN [dir |-> d, failed |-> {}]
                            ELSE [dir |-> st.dir, failed |-> st.failed]

\* _manage_cache_size(cache_dir, max_size_gb), with no other process touching the directory
ManageCacheSize ==
    /\ cache_pc = "ready"
    /\ cache_pc' = "returned"
    /\ before' = dir
    /\ IF ~dir_exists
         THEN UNCHANGED <<dir, failed>>
         ELSE \E jpgs \in Listings(dir, "jpg") : \E pngs \in Listings(dir, "png") :
                LET st == CachePass(dir, max_size_bytes, jpgs, pngs)
                IN dir' = st.dir /\ failed' = st.failed
    /\ UNCHANGED <<dir_exists, max_size_bytes, written, passes, workerVars, callVars, mgrVars>>

\* the pass of a call whose scan saw the directory as `scanned` and whose eviction loop
\* runs on the directory as it is now: the total and the file list are those of the scan
StalePass(scanned, d, max, jpgs, pngs) ==
    LET files == Glob(scanned, jpgs) \o Glob(scanned, pngs)
        total_size == TotalSize(files)
        st == Evict([dir |-> d, total |-> total_size, failed |-> {}],
                    SortByMtime(files), max)
    IN IF total_size <= max THEN [dir |-> d, failed |-> {}]
                            ELSE [dir |-> st.dir, failed |-> st.failed]

\* _manage_cache_size up to the end of its two scans, other writers being active
ScanBegin ==
    /\ cache_pc = "ready" /\ dir_exists
    /\ cache_pc' = "scanning"
    /\ before' = dir
    /\ failed' = {}
    /\ written' = {}
    /\ UNCHANGED <<dir, dir_exists, max_size_bytes, passes, workerVars, callVars, mgrVars>>

\* another capture() moves its file into the directory: temp_path.rename(final_path)
\* of a call in another thread or process, under a name not taken
WriterAdds(n, size, locked) ==
    /\ cache_pc \in {"scanning", "evicted"}
    /\ n \in DOMAIN dir /\ Ext(n) \in {"jpg", "png"} /\ IsFile(n) /\ ~dir[n].present
    /\ dir' = [dir EXCEPT ![n] = [present |-> TRUE, size |-> size, mtime |-> MaxMtime,
                                  locked |-> locked]]
    /\ written' = written \cup {n}
    /\ UNCHANGED <<dir_exists, max_size_bytes, cache_pc, before, failed, passes,
                   workerVars, callVars, mgrVars>>

\* the rest of that call: the test of the scanned total and the eviction loop
EvictEnd ==
    /\ cache_pc = "scanning"
    /\ cache_pc' = "evicted"
    /\ \E jpgs \in Listings(before, "jpg") : \E pngs \in Listings(before, "png") :
         LET st == StalePass(before, dir, max_size_bytes, jpgs, pngs)
         IN dir' = st.dir /\ failed' = st.failed
    /\ UNCHANGED <<dir_exists, max_size_bytes, before, written, passes, workerVars, callVars, mgrVars>>

\* the next capture() reaches its call of _manage_cache_size
NextCall ==
    /\ cache_pc = "evicted"
    /\ cache_pc' = "ready"
    /\ UNCHANGED <<dir, dir_exists, max_size_bytes, before, failed, written, passes,
                   workerVars, callVars, mgrVars>>

\* a call of _manage_cache_size lists the directory: cache_dir.glob("*.jpg") and
\* cache_dir.glob("*.png")
PassList(p) ==
    /\ passes[p].pc = "idle" /\ dir_exists
    /\ \E jpgs \in Listings(dir, "jpg") : \E pngs \in Listings(dir, "png") :
         passes' = [passes EXCEPT ![p] = [@ EXCEPT !.pc = "listed", !.listing = jpgs \o pngs]]
    /\ UNCHANGED <<dir, dir_exists, max_size_bytes, cache_pc, before, failed, written,
                   workerVars, callVars, mgrVars>>

\* the call reads the entries it listed: is_file(), stat().st_size, stat().st_mtime.
\* An entry gone since the listing is skipped when is_file() already misses it, and
\* stat() raises FileNotFoundError out of the call when it went after is_file()
\* (between = TRUE). Then the test of the total and the sort.
PassStat(p, between) ==
    /\ passes[p].pc = "listed"
    /\ LET here == SelectSeq(passes[p].listing, LAMBDA n : dir[n].present)
           files == Glob(dir, here)
           total_size == TotalSize(files)
       IN IF between /\ Len(here) < Len(passes[p].listing)
            THEN passes' = [passes EXCEPT ![p] = Ended("raised")]
            ELSE IF total_size <= max_size_bytes
              THEN passes' = [passes EXCEPT ![p] = Ended("done")]
              ELSE passes' = [passes EXCEPT ![p] = [@ EXCEPT !.pc = "evicting",
                                                              !.listing = <<>>,
                                                              !.files = SortByMtime(files),
                                                              !.total = total_size]]
    /\ UNCHANGED <<dir, dir_exists, max_size_bytes, cache_pc, before, failed, written,
                   workerVars, callVars, mgrVars>>

\* one turn of the eviction loop of the call: the unlink of the oldest file left in its
\* list, and the test that ends the loop once the list or the excess is used up
PassUnlink(p) ==
    /\ passes[p].pc = "evicting"
    /\ LET st == Unlink([dir |-> dir, total |-> passes[p].total, failed |-> passes[p].failed],
                        Head(passes[p].files))
           rest == Tail(passes[p].files)
       IN /\ dir' = st.dir
          /\ passes' = [passes EXCEPT ![p] =
                          IF rest = <<>> \/ st.total <= max_size_bytes
                            THEN Ended("done")
                            ELSE [@ EXCEPT !.files = rest, !.total = st.total,
                                           !.failed = st.failed]]
    /\ UNCHANGED <<dir_exists, max_size_bytes, cache_pc, before, failed, written,
                   workerVars, callVars, mgrVars>>

\* another capture() moves its file into the directory while the calls run, under a
\* name the directory has not held; one such writer is followed
WriterMoves(n, size, locked) ==
    /\ n \in DOMAIN dir /\ Ext(n) \in {"jpg", "png"} /\ IsFile(n)
    /\ ~before[n].present /\ written = {}
    /\ dir' = [dir EXCEPT ![n] = [present |-> TRUE, size |-> size, mtime |-> MaxMtime,
                                  locked |-> locked]]
    /\ written' = written \cup {n}
    /\ UNCHANGED <<dir_exists, max_size_bytes, cache_pc, before, failed, passes,
                   workerVars, callVars, mgrVars>>

\* the cache part of the state in the runs that do not call _manage_cache_size
CacheUnused ==
    /\ dir = [n \in Names |-> NoFile]
    /\ dir_exists = FALSE
    /\ max_size_bytes = 0
    /\ cache_pc = "ready"
    /\ before = [n \in Names |-> NoFile]
    /\ failed = {}
    /\ written = {}
    /\ passes = NoPasses

\* ------------------------------------- _take_screenshot: the capture strategies
\* what a PowerShell run gives: it exceeds its timeout, exits non-zero, or exits 0 with a
\* stdout that is blank, is not base64, decodes to no bytes, decodes to bytes that are
\* no image, or decodes to a PNG
Payloads == {"timeout", "failed", "blank", "badb64", "empty", "garbage", "png"}

\* the platforms: _is_wsl(), the target asked for, whether the .ps1 file is there, whether
\* a powershell.exe answers, the two script runs, the format asked for, whether PIL
\* imports, what mss does, whether scrot succeeds
Platforms ==
    [wsl : BOOLEAN, target : {"primary", "monitor", "all"}, script_exists : BOOLEAN,
     powershell : BOOLEAN, external : Payloads, inline : Payloads, use_jpeg : BOOLEAN,
     pil : BOOLEAN, mss : {"missing", "raises", "ok"}, scrot : {"failed", "ok"}]

\* a strategy's outcome: its return value, the content of the file at filepath, the
\* strategies entered
Outcome(ok, file, tried) == [ok |-> ok, file |-> file, tried |-> tried]

\* png_data = base64.b64decode(stdout.strip()), then the save as JPEG through PIL or the
\* write of the raw bytes; an exception leaves the strategy through its except: return False
SavePayload(e, payload, tried) ==
    IF payload = "badb64" THEN Outcome(FALSE, "absent", tried)
    ELSE IF e.use_jpeg /\ e.pil
      THEN IF payload = "png" THEN Outcome(TRUE, "image", tried)
                              ELSE Outcome(FALSE, "absent", tried)
      ELSE Outcome(TRUE, IF payload = "png" THEN "image" ELSE payload, tried)

\* if result.returncode == 0 and result.stdout.strip()
HasPayload(payload) == payload \notin {"failed", "blank"}

\* _capture_windows_screen_inline
CaptureWindowsScreenInline(e, tried) ==
    LET t == Append(tried, "inline")
    IN IF ~e.powershell \/ e.inline = "timeout" \/ ~HasPayload(e.inline)
         THEN Outcome(FALSE, "absent", t)
         ELSE SavePayload(e, e.inline, t)

\* _capture_windows_screen: the external script when it is there and a PowerShell
\* answers, the inline script when that run gave no payload
CaptureWindowsScreen(e) ==
    IF e.script_exists /\ e.powershell
      THEN IF e.external = "timeout" THEN Outcome(FALSE, "absent", <<"external">>)
           ELSE IF HasPayload(e.external) THEN SavePayload(e, e.external, <<"external">>)
           ELSE CaptureWindowsScreenInline(e, <<"external">>)
      ELSE CaptureWindowsScreenInline(e, <<>>)

\* subprocess.run(["scrot", ...]); return result.returncode == 0 and filepath.exists()
Scrot(e, tried) ==
    IF e.scrot = "ok" THEN Outcome(TRUE, "image", Append(tried, "scrot"))
                      ELSE Outcome(FALSE, "absent", Append(tried, "scrot"))

\* _capture_native_screen: mss, and scrot when mss (or PIL for a JPEG) does not import
CaptureNativeScreen(e, tried) ==
    LET t == Append(tried, "mss")
    IN CASE e.mss = "missing" -> Scrot(e, t)
         [] e.mss = "raises" -> Outcome(FALSE, "absent", t)
         [] OTHER -> IF e.use_jpeg /\ ~e.pil THEN Scrot(e, t) ELSE Outcome(TRUE, "image", t)

\* what became of a strategy of _take_screenshot: not called, returned False, returned True
Fate(called, ok) == IF ~called THEN "untried" ELSE IF ok THEN "ok" ELSE "failed"

\* _take_screenshot with the native strategy called whatever the Windows one returned
TakeScreenshotEveryStrategy(e) ==
    LET win == IF e.wsl THEN CaptureWindowsScreen(e) ELSE Outcome(FALSE, "absent", <<>>)
        nat == CaptureNativeScreen(e, win.tried)
    IN [pc |-> "returned", path |-> IF win.ok \/ nat.ok THEN "filepath" ELSE None,
        file |-> IF nat.ok THEN nat.file ELSE win.file, tried |-> nat.tried,
        windows |-> Fate(e.wsl, win.ok), native |-> Fate(TRUE, nat.ok),
        count |-> (IF win.ok THEN 1 ELSE 0) + (IF nat.ok THEN 1 ELSE 0)]

\* _take_screenshot: the Windows strategies under WSL, then the native ones; the path
\* of the file when a strategy returned True, else None; what became of the two
\* strategies and how often self.screenshot_count += 1 ran
TakeScreenshotOutcome(e) ==
    LET win == IF e.wsl THEN CaptureWindowsScreen(e) ELSE Outcome(FALSE, "absent", <<>>)
        res == IF win.ok THEN win ELSE CaptureNativeScreen(e, win.tried)
    IN [pc |-> "returned", path |-> IF res.ok THEN "filepath" ELSE None,
        file |-> res.file, tried |-> res.tried,
        windows |-> Fate(e.wsl, win.ok), native |-> Fate(~win.ok, res.ok),
        count |-> IF res.ok THEN 1 ELSE 0]

\* before the call
NoShot ==
    [pc |-> "entry", path |-> None, file |-> "absent", tried |-> <<>>,
     windows |-> "untried", native |-> "untried", count |-> 0]

\* the platform in the runs that do not look into the strategies
NoPlatform ==
    [wsl |-> FALSE, target |-> "primary", script_exists |-> FALSE, powershell |-> FALSE,
     external |-> "failed", inline |-> "failed", use_jpeg |-> TRUE, pil |-> TRUE,
     mss |-> "ok", scrot |-> "ok"]

\* one call of _take_screenshot
Acquire ==
    /\ shot.pc = "entry"
    /\ shot' = TakeScreenshotOutcome(env)
    /\ UNCHANGED <<workerVars, cacheVars, cap, env, mgrVars>>

\* ------------------------------------------------------- CaptureManager
\* a ScreenshotWorker as the manager sees it: its flag, session and count, the interval
\* it was created with, and its background loop (sleeping between attempts, inside a
\* capture attempt, or returned)
NewWorker(interval, t) ==
    [running |-> TRUE, session_id |-> SessionOr(None, t), screenshot_count |-> 0,
     interval_sec |-> interval, loop |-> "idle"]

\* the slot taken for free whatever it holds
SlotNeverBusy(m) == FALSE

\* if self.worker and self.worker.running
SlotBusy(m) == m.worker # 0 /\ m.objs[m.worker].running

\* the last call of the manager: the operation, whether the slot was busy, the worker
\* returned (0 for None)
ManagerCall(op, busy, returned) == [op |-> op, busy |-> busy, returned |-> returned]

\* CaptureManager.start_capture(interval=...) at time t: the existing worker when it is
\* running, else a new ScreenshotWorker, put into the slot and started
StartCapture(m, interval, t) ==
    IF SlotBusy(m)
      THEN [m EXCEPT !.call = ManagerCall("start_capture", TRUE, m.worker)]
      ELSE [worker |-> Len(m.objs) + 1,
            objs |-> Append(m.objs, NewWorker(interval, t)),
            call |-> ManagerCall("start_capture", FALSE, Len(m.objs) + 1)]

\* ScreenshotWorker.stop() on worker w: the flag is cleared and the loop is joined for
\* at most 2 s. A sleeping loop returns within the wait; a loop inside a capture
\* attempt finishes it within the wait with or without a file ("ok", "failed"), or
\* overruns the wait ("overrun")
WorkerStop(w, ending) ==
    IF ~w.running THEN w
    ELSE IF w.loop # "capturing" THEN [w EXCEPT !.running = FALSE, !.loop = "done"]
    ELSE IF ending = "overrun" THEN [w EXCEPT !.running = FALSE]
    ELSE [w EXCEPT !.running = FALSE, !.loop = "done",
                   !.screenshot_count = @ + (IF ending = "ok" THEN 1 ELSE 0)]

\* CaptureManager.stop_capture(): if self.worker: self.worker.stop(); self.worker = None
StopCapture(m, ending) ==
    IF m.worker = 0
      THEN [m EXCEPT !.call = ManagerCall("stop_capture", FALSE, 0)]
      ELSE [worker |-> 0,
            objs |-> [m.objs EXCEPT ![m.worker] = WorkerStop(@, ending)],
            call |-> ManagerCall("stop_capture", SlotBusy(m), 0)]

\* the manager of a process that started no monitoring
NoManager == [worker |-> 0, objs |-> <<>>, call |-> ManagerCall("none", FALSE, 0)]

\* the last reply of an MCP tool: the tool, whether its guard refused, "success"
Reply(tool, refused, success) == [tool |-> tool, refused |-> refused, success |-> success]

\* the marker taken for absent whatever the directory holds
MarkerNeverExists(m) == FALSE

\* monitoring_file.exists()
MarkerExists(m) == m.marker

\* sccpt.start_monitor(...) through the module's manager
ManagerStartCapture(interval) ==
    /\ SlotBusy(mgr) \/ Len(mgr.objs) < MaxWorkers
    /\ mgr' = StartCapture(mgr, interval, now)
    /\ UNCHANGED <<mcp, workerVars, cacheVars, callVars>>

\* sccpt.stop_monitor() through the module's manager
ManagerStopCapture(ending) ==
    /\ mgr' = StopCapture(mgr, ending)
    /\ UNCHANGED <<mcp, workerVars, cacheVars, callVars>>

\* one capture attempt of the loop of worker w begins: while self.running, the time
\* for the next capture has come
WorkerLoopBegin(w) ==
    /\ w \in 1..Len(mgr.objs)
    /\ mgr.objs[w].loop = "idle" /\ mgr.objs[w].running
    /\ mgr.objs[w].screenshot_count < MaxShots
    /\ mgr' = [mgr EXCEPT !.objs[w].loop = "capturing"]
    /\ UNCHANGED <<mcp, workerVars, cacheVars, callVars>>

\* the attempt ends, with a file or without; the loop returns at its next test of the
\* flag when the worker was stopped meanwhile
WorkerLoopEnd(w, ok) ==
    /\ w \in 1..Len(mgr.objs)
    /\ mgr.objs[w].loop = "capturing"
    /\ mgr' = [mgr EXCEPT !.objs[w].screenshot_count = @ + (IF ok THEN 1 ELSE 0),
                          !.objs[w].loop = IF mgr.objs[w].running THEN "idle" ELSE "done"]
    /\ UNCHANGED <<mcp, workerVars, cacheVars, callVars>>

\* the MCP tool start_monitoring(interval). fault is the step that raises: none, the
\* start of the monitor, or the writing of the marker file
StartMonitoring(interval, fault) ==
    /\ SlotBusy(mgr) \/ Len(mgr.objs) < MaxWorkers
    /\ IF MarkerExists(mcp)
         THEN /\ mcp' = [mcp EXCEPT !.reply = Reply("start_monitoring", TRUE, FALSE)]
              /\ UNCHANGED mgr
         ELSE IF fault = "start"
           THEN /\ mcp' = [mcp EXCEPT !.reply = Reply("start_monitoring", FALSE, FALSE)]
                /\ UNCHANGED mgr
           ELSE /\ mgr' = StartCapture(mgr, interval, now)
                /\ mcp' = IF fault = "marker"
                            THEN [mcp EXCEPT !.reply = Reply("start_monitoring", FALSE, FALSE)]
                            ELSE [marker |-> TRUE,
                                  reply |-> Reply("start_monitoring", FALSE, TRUE)]
    /\ UNCHANGED <<workerVars, cacheVars, callVars>>

\* the MCP tool stop_monitoring(). fault is the step that raises: none, or the unlink
\* of the marker file
StopMonitoring(ending, fault) ==
    /\ IF ~MarkerExists(mcp)
         THEN /\ mcp' = [mcp EXCEPT !.reply = Reply("stop_monitoring", TRUE, FALSE)]
              /\ UNCHANGED mgr
         ELSE /\ mgr' = StopCapture(mgr, ending)
              /\ mcp' = IF fault = "unlink"
                          THEN [mcp EXCEPT !.reply = Reply("stop_monitoring", FALSE, FALSE)]
                          ELSE [marker |-> FALSE,
                                reply |-> Reply("stop_monitoring", FALSE, TRUE)]
    /\ UNCHANGED <<workerVars, cacheVars, callVars>>

\* the manager and the server in the runs that do not use them
ManagerUnused ==
    /\ mgr = NoManager
    /\ mcp = [marker |-> FALSE, reply |-> Reply("none", FALSE, FALSE)]

\* --------------------------------------------- capture(): the message segment
\* the characters a message is made of: a letter or digit, an underscore, a hyphen,
\* whitespace, a punctuation mark, a line break
Alphabet == {"a", "_", "-", " ", "!", "\n"}

\* \w of the re module: letters, digits and the underscore
IsWord(c) == c \in {"a", "_"}

\* \s of the re module
IsSpace(c) == c \in {" ", "\n"}

\* the class [-\s]
IsSep(c) == c = "-" \/ IsSpace(c)

\* message=None: a message is a sequence of characters, the absent one holds the marker
NoneMessage == <<None>>

\* Python truthiness of the message argument: None and "" are falsy
NoMessage(m) == m = NoneMessage \/ m = <<>>

\* message.split('\n')[0]
FirstLine(m) ==
    LET breaks == {i \in 1..Len(m) : m[i] = "\n"}
    IN IF breaks = {} THEN m
       ELSE SubSeq(m, 1, (CHOOSE i \in breaks : \A j \in breaks : i <= j) - 1)

\* re.sub(r'[^\w\s-]', '', line)
RemoveSpecial(line) == SelectSeq(line, LAMBDA c : IsWord(c) \/ IsSpace(c) \/ c = "-")

\* re.sub(r'[-\s]+', '-', text): of every run of separators one hyphen is left
CollapseRuns(text) ==
    LET marked == [i \in 1..Len(text) |->
                     [c |-> IF IsSep(text[i]) THEN "-" ELSE text[i],
                      dup |-> IsSep(text[i]) /\ i < Len(text) /\ IsSep(text[i + 1])]]
        kept == SelectSeq(marked, LAMBDA r : ~r.dup)
    IN [i \in 1..Len(kept) |-> kept[i].c]

\* text.strip('-')
StripHyphens(text) ==
    LET inner == {i \in 1..Len(text) : text[i] # "-"}
    IN IF inner = {} THEN <<>>
       ELSE SubSeq(text, CHOOSE i \in inner : \A j \in inner : i <= j,
                         CHOOSE i \in inner : \A j \in inner : i >= j)

\* the slice left whole
NoTruncate(normalized) == normalized

\* normalized[:50]
Truncate(normalized) ==
    SubSeq(normalized, 1, IF Len(normalized) < SegmentLimit THEN Len(normalized) ELSE SegmentLimit)

\* normalized_msg = f"-{normalized[:50]}" if normalized else "", "" without a message
NormalizedMsg(message) ==
    IF NoMessage(message) THEN <<>>
    ELSE LET normalized == StripHyphens(CollapseRuns(RemoveSpecial(FirstLine(message))))
         IN IF normalized = <<>> THEN <<>> ELSE <<"-">> \o Truncate(normalized)

\* ------------------------------------------------ capture(): classification
\* path=None: a path is a sequence of tokens, the absent one holds the marker
NonePath == <<None>>

\* the words _detect_category looks for in the name of the file
ErrorWords == {"error", "fail", "exception", "crash"}

WarnWords == {"warn", "alert", "caution"}

\* path is None or path.lower().endswith(('.jpg', '.jpeg'))
UseJpeg(path) == path = NonePath \/ path[Len(path)] \in {".jpg", ".jpeg"}

\* the file _take_screenshot writes for capture(): temp_dir / f"capture_0000_{timestamp}.{ext}"
TempPath(ts, use_jpeg) ==
    <<"/tmp/sccpt_temp", "/", "capture", "_", "0000", "_", ts,
      IF use_jpeg THEN ".jpg" ELSE ".png">>

\* any(word in filename_lower for word in words)
HasWord(filepath, words) == \E i \in 1..Len(filepath) : filepath[i] \in words

\* the category and the step of the decision list that produced it
Decided(category, step) == [category |-> category, step |-> step]

\* _detect_category(filepath): the pixel ratios when PIL opens the image, then the
\* words in the file name, then the default
DetectCategory(filepath, readable, pixels) ==
    IF readable /\ pixels = "red" THEN Decided("error", "pixels")
    ELSE IF readable /\ pixels = "yellow" THEN Decided("warning", "pixels")
    ELSE IF HasWord(filepath, ErrorWords) THEN Decided("stderr", "keyword")
    ELSE IF HasWord(filepath, WarnWords) THEN Decided("stderr", "keyword")
    ELSE Decided("stdout", "default")

\* the last exception the interpreter recorded, handled or not, in place of the active one
InExceptionContextLast(exc, last_type) == last_type

\* _is_in_exception_context(): sys.exc_info()[0] is not None
InExceptionContext(exc, last_type) == exc

\* lines 136-151 of capture(): category = "stdout", "stderr" in an exception handler,
\* else _detect_category(temp_path)
Classify(auto_categorize, exc, last_type, temp_path, readable, pixels) ==
    IF ~auto_categorize THEN Decided("stdout", "off")
    ELSE IF InExceptionContext(exc, last_type) THEN Decided("stderr", "exception")
    ELSE DetectCategory(temp_path, readable, pixels)

\* traceback.format_exc(limit=3): a header line and the frames below it
ExcInfo == <<"a", " ", "!", "a", "!", "\n", "a">>

\* message = f"{message}\n{exc_info}" if message else exc_info, in an exception handler
MessageInContext(message, auto_categorize, in_exception) ==
    IF auto_categorize /\ in_exception
      THEN IF NoMessage(message) THEN ExcInfo ELSE message \o <<"\n">> \o ExcInfo
      ELSE message

\* timestamp = datetime.now().strftime("%Y%m%d_%H%M%S_%f")[:-3]: the clock, read in
\* microseconds, written with its last three digits cut off
Timestamp(micros) == "T" \o ToString(micros \div MicrosPerMilli)

\* what the classifier can observe: the exception-context flag, the pixel content, and
\* whether PIL opens the image
Scenes == [exc : BOOLEAN, pixels : {"red", "yellow", "plain"}, readable : BOOLEAN]

\* everything else a classification happens in: the time of the capture, the format of
\* the temporary file, whether an earlier exception is on record
Contexts == [ts : {"T0", "T1"}, use_jpeg : BOOLEAN, last_type : BOOLEAN]

NoScene == [exc |-> FALSE, pixels |-> "plain", readable |-> TRUE]

\* red_ratio > 0.05, elif yellow_ratio > 0.05 over the counted pixels: which of the two
\* tests of _detect_category holds first, a ratio being 0 for an image of no pixels
PixelContent(red_count, yellow_count, total_pixels) ==
    IF total_pixels > 0 /\ 100 * red_count > 5 * total_pixels THEN "red"
    ELSE IF total_pixels > 0 /\ 100 * yellow_count > 5 * total_pixels THEN "yellow"
    ELSE "plain"

\* the numbers of strongly red and strongly yellow pixels of an image: none, 5%, 10%
PixelCounts == {0, TotalPixels \div 20, TotalPixels \div 10}

\* the scenes with their pixel counts
PixelScenes ==
    {[exc |-> e, pixels |-> PixelContent(r, y, TotalPixels), readable |-> rd,
      red |-> r, yellow |-> y] : e \in BOOLEAN, rd \in BOOLEAN, r \in PixelCounts,
                                 y \in PixelCounts}

NoContext == [ts |-> "T0", use_jpeg |-> TRUE, last_type |-> FALSE]

\* ------------------------------------------------ capture(): the final path
\* f"~/.cache/sccpt/<timestamp><message><category_suffix>.jpg"
DefaultTemplate ==
    <<"~", "/", ".cache", "/", "sccpt", "/", "<timestamp>", "<message>",
      "<category_suffix>", ".jpg">>

\* the home directory of the user
Home == <<"/", "home">>

\* os.path.expanduser("~/.cache/sccpt")
CacheRoot == Home \o <<"/", ".cache", "/", "sccpt">>

\* the path taken as it is
NoExpandUser(path) == path

\* os.path.expanduser(path): a leading ~ becomes the home directory
ExpandUser(path) == IF path[1] = "~" THEN Home \o Tail(path) ELSE path

RECURSIVE Replace(_, _, _)
\* path.replace(placeholder, value)
Replace(path, placeholder, value) ==
    IF path = <<>> THEN <<>>
    ELSE (IF Head(path) = placeholder THEN value ELSE <<Head(path)>>)
           \o Replace(Tail(path), placeholder, value)

\* lines 170-179 of capture(): the home and the three placeholders substituted
Substituted(path, timestamp, normalized_msg, category) ==
    Replace(Replace(Replace(ExpandUser(path), "<timestamp>", <<timestamp>>),
                    "<message>", normalized_msg),
            "<category_suffix>", <<"-" \o category>>)

RECURSIVE Components(_, _)
\* the parts of a path between its separators, cur being the part in progress
Components(path, cur) ==
    IF path = <<>> THEN <<cur>>
    ELSE IF Head(path) = "/" THEN <<cur>> \o Components(Tail(path), <<>>)
    ELSE Components(Tail(path), Append(cur, Head(path)))

RECURSIVE Joined(_)
\* the parts with one separator between them
Joined(parts) ==
    IF parts = <<>> THEN <<>>
    ELSE IF Len(parts) = 1 THEN parts[1]
    ELSE parts[1] \o <<"/">> \o Joined(Tail(parts))

\* the root pathlib keeps: none, one separator, or two when the path begins with
\* exactly two
Root(path) ==
    IF path = <<>> \/ path[1] # "/" THEN <<>>
    ELSE IF Len(path) >= 2 /\ path[2] = "/" /\ ~(Len(path) >= 3 /\ path[3] = "/")
      THEN <<"/", "/">>
      ELSE <<"/">>

\* str(Path(path)): repeated separators, "." parts and a trailing separator are dropped
PathStr(path) ==
    LET parts == SelectSeq(Components(path, <<>>), LAMBDA c : c # <<>> /\ c # <<".">>)
    IN IF Root(path) = <<>> /\ parts = <<>> THEN <<".">> ELSE Root(path) \o Joined(parts)

\* Path(path).parent is the cache directory
InCache(final) ==
    /\ Len(final) > Len(CacheRoot) + 1
    /\ SubSeq(final, 1, Len(CacheRoot) + 1) = CacheRoot \o <<"/">>
    /\ \A i \in (Len(CacheRoot) + 2)..Len(final) : final[i] # "/"

\* the return value None: a returned path is a sequence of tokens
NoneResult == <<None>>

\* if not temp_path dropped: the call goes on without a file
AcquiredAlways(outcome) == TRUE

\* truthiness of temp_path: _take_screenshot returned the path of a file
Acquired(outcome) == outcome = "file"

\* the frame of capture() before the call
NoCall ==
    [pc |-> "entry", message |-> NoneMessage, normalized_msg |-> <<>>,
     scene |-> NoScene, context |-> NoContext, category |-> "stdout", step |-> "none",
     earlier |-> "none", path |-> NonePath, acquired |-> "none", ran |-> {},
     fault |-> "none", metadata |-> "none", result |-> NoneResult, exists |-> FALSE,
     clock |-> 0, previous |-> NoneResult]

\* the frame in the runs that do not call capture()
CallUnused == cap = NoCall /\ env = NoPlatform /\ shot = NoShot /\ ManagerUnused

\* lines 153-160 of capture(): the message segment of the filename
NormalizeMessage ==
    /\ cap.pc = "entry"
    /\ cap' = [cap EXCEPT !.pc = "named", !.normalized_msg = NormalizedMsg(cap.message)]
    /\ UNCHANGED <<workerVars, cacheVars, env, shot, mgrVars>>

\* lines 136-151 of capture() on their own: one classification
ClassifyCapture ==
    /\ cap.pc = "entry"
    /\ LET decided == Classify(TRUE, cap.scene.exc, cap.context.last_type,
                               TempPath(cap.context.ts, cap.context.use_jpeg),
                               cap.scene.readable, cap.scene.pixels)
       IN cap' = [cap EXCEPT !.pc = "classified", !.category = decided.category,
                             !.step = decided.step]
    /\ UNCHANGED <<workerVars, cacheVars, env, shot, mgrVars>>

\* the caller captures once more: the same scene and message at another time, with
\* another temporary file and another history
ClassifyAgain ==
    /\ cap.pc = "classified"
    /\ cap.earlier = "none"
    /\ \E c \in Contexts \ {cap.context} :
         cap' = [cap EXCEPT !.pc = "entry", !.context = c, !.earlier = cap.category,
                            !.category = "stdout", !.step = "none"]
    /\ UNCHANGED <<workerVars, cacheVars, env, shot, mgrVars>>

\* the caller calls capture() once more, with the default path: the clock has not gone
\* back, the result of the earlier call is kept for comparison
CaptureAgain(message, micros) ==
    /\ cap.pc = "returned"
    /\ cap.previous = NoneResult /\ cap.result # NoneResult
    /\ micros >= cap.clock
    /\ cap' = [NoCall EXCEPT !.message = message, !.path = cap.path,
                             !.context = [cap.context EXCEPT !.ts = Timestamp(micros)],
                             !.clock = micros, !.previous = cap.result]
    /\ cache_pc' = "ready"
    /\ UNCHANGED <<dir, dir_exists, max_size_bytes, before, failed, written, passes, workerVars, env, shot, mgrVars>>

\* _add_message_metadata(final_path, metadata), called when there is a message or the
\* category is not "stdout": the EXIF comment through PIL, else the companion text file
Annotated(text, category) == ~NoMessage(text) \/ category # "stdout"

\* the entry of the directory that stands for the final path: the one an earlier call
\* of capture() wrote when the two paths are the same, another one when they differ
EntryName(final, previous) ==
    IF previous = NoneResult \/ final = previous THEN CaptureName ELSE LaterName

\* the file the rename put into the cache directory, in place of the file of that name
\* if there is one: of the size written, newer than every older file, and removable
Moved(d, size, name) ==
    (name :> [present |-> TRUE, size |-> size,
              mtime |-> MaxMtime + (IF name = CaptureName THEN 1 ELSE 2),
              locked |-> FALSE]) @@ d

\* what _add_message_metadata leaves: the EXIF comment when PIL opens and saves the
\* image, else the companion text file
MetadataKind(readable, fault) == IF readable /\ fault # "save" THEN "exif" ELSE "text"

\* capture(message, path, auto_categorize, max_cache_gb) with no other process touching
\* the directories. outcome is what _take_screenshot did, size the size of its file,
\* fault the one step that fails after the acquisition: none, the mkdir of the parent,
\* the rename, the save of the EXIF comment (caught: the text file is written), or the
\* write of the text file
Capture(auto_categorize, scene, outcome, size, fault) ==
    /\ cap.pc = "entry"
    /\ IF ~Acquired(outcome)
         THEN /\ cap' = [cap EXCEPT !.pc = "returned", !.acquired = outcome,
                                    !.result = NoneResult]
              /\ UNCHANGED cacheVars
         ELSE \E decided \in {Classify(auto_categorize, scene.exc, cap.context.last_type,
                                       TempPath(cap.context.ts, UseJpeg(cap.path)),
                                       scene.readable, scene.pixels)} :
              \E text \in {MessageInContext(cap.message, auto_categorize, scene.exc)} :
              \E normalized_msg \in {NormalizedMsg(text)} :
              \E final \in {PathStr(Substituted(
                              IF cap.path = NonePath THEN DefaultTemplate ELSE cap.path,
                              cap.context.ts, normalized_msg, decided.category))} :
              \E in_cache \in {InCache(final)} :
              \E name \in {EntryName(final, cap.previous)} :
              \E moved \in {IF in_cache THEN Moved(dir, size, name) ELSE dir} :
              \E metadata \in {IF Annotated(text, decided.category)
                                 THEN MetadataKind(scene.readable, fault) ELSE "none"} :
              \E frame \in {[cap EXCEPT !.acquired = outcome,
                                        !.category = decided.category,
                                        !.step = decided.step,
                                        !.normalized_msg = normalized_msg]} :
                 IF fault \in {"mkdir", "rename"}
                   THEN /\ cap' = [frame EXCEPT !.pc = "raised", !.fault = fault,
                                                !.ran = {"classify"}]
                        /\ dir_exists' = (dir_exists \/ (in_cache /\ fault = "rename"))
                        /\ UNCHANGED <<dir, max_size_bytes, cache_pc, before, failed, written, passes>>
                 ELSE IF metadata # "none" /\ fault = "write"
                   THEN /\ cap' = [frame EXCEPT !.pc = "raised", !.fault = fault,
                                                !.ran = {"classify", "move"}]
                        /\ dir' = moved
                        /\ dir_exists' = (dir_exists \/ in_cache)
                        /\ UNCHANGED <<max_size_bytes, cache_pc, before, failed, written, passes>>
                 ELSE IF dir_exists \/ in_cache
                   THEN \E jpgs \in Listings(moved, "jpg") : \E pngs \in Listings(moved, "png") :
                          LET st == CachePass(moved, max_size_bytes, jpgs, pngs)
                          IN /\ cap' = [frame EXCEPT
                                          !.pc = "returned",
                                          !.ran = {"classify", "move", "evict"},
                                          !.metadata = metadata,
                                          !.result = final,
                                          !.exists = IF in_cache
                                                       THEN st.dir[name].present
                                                       ELSE TRUE]
                             /\ dir' = st.dir
                             /\ failed' = st.failed
                             /\ before' = moved
                             /\ cache_pc' = "returned"
                             /\ dir_exists' = TRUE
                             /\ UNCHANGED <<max_size_bytes, written, passes>>
                   ELSE /\ cap' = [frame EXCEPT
                                     !.pc = "returned", !.ran = {"classify", "move"},
                                     !.metadata = metadata,
                                     !.result = final, !.exists = TRUE]
                        /\ UNCHANGED cacheVars
    /\ UNCHANGED <<workerVars, env, shot, mgrVars>>

\* ------------------------------------------------------ worker lifecycle
\* ScreenshotWorker.__init__
WorkerInit ==
    /\ running = FALSE
    /\ worker_thread = 0
    /\ screenshot_count = 0
    /\ session_id = None
    /\ threads = [t \in ThreadIds |-> Exited]
    /\ now = 0
    /\ callerpc = "idle"
    /\ join_deadline = 0
    /\ last = Event("init", FALSE, None, "none")
    /\ succ = 0

Init ==
    /\ WorkerInit
    /\ interval_sec \in {SecondTicks, 2 * SecondTicks}
    /\ on_capture \in BOOLEAN
    /\ on_error \in BOOLEAN
    /\ run_length = 0
    /\ CacheUnused
    /\ CallUnused

Next ==
    \/ \E sid \in SessionArgs : Start(sid)
    \/ Stop
    \/ JoinReturn
    \/ JoinTimesOut
    \/ \E t \in ThreadIds : LoopEnter(t)
    \/ \E t \in ThreadIds : LoopTest(t)
    \/ \E t \in ThreadIds : TakeScreenshot(t)
    \/ \E t \in ThreadIds : \E outcome \in {"file", "nofile", "exception"} : BackendReturn(t, outcome)
    \/ \E t \in ThreadIds : IncrementCount(t)
    \/ \E t \in ThreadIds : \E raises \in BOOLEAN : OnCapture(t, raises)
    \/ \E t \in ThreadIds : SleepReturn(t)
    \/ TickSecond

vars == <<workerVars, cacheVars, callVars, mgrVars>>

Spec == Init /\ [][Next]_vars

\* ------------------------------------------------- runs that are followed to their end
\* the clock is not counted beyond MaxTime: a time.sleep(0.01) that ends after it returns
SleepReturnLate(t) ==
    /\ threads[t].pc = "sleep"
    /\ now + SecondTicks > MaxTime
    /\ now < threads[t].wake
    /\ threads' = [threads EXCEPT ![t].pc = "while", ![t].wake = 0]
    /\ last' = LoopOp
    /\ UNCHANGED <<screenshot_count, succ>>
    /\ ThreadFrame

\* a step of the background loop of Thread t
ThreadStep(t) ==
    \/ LoopEnter(t)
    \/ LoopTest(t)
    \/ TakeScreenshot(t)
    \/ \E outcome \in {"file", "nofile", "exception"} : BackendReturn(t, outcome)
    \/ IncrementCount(t)
    \/ \E raises \in BOOLEAN : OnCapture(t, raises)
    \/ SleepReturn(t)
    \/ SleepReturnLate(t)

InitLive ==
    /\ WorkerInit
    /\ interval_sec = SecondTicks
    /\ on_capture \in BOOLEAN
    /\ on_error = FALSE
    /\ run_length = 0
    /\ CacheUnused
    /\ CallUnused

NextLive ==
    \/ Start(None)
    \/ Stop
    \/ JoinReturn
    \/ JoinTimesOut
    \/ \E t \in ThreadIds : ThreadStep(t)
    \/ TickSecond

\* every Thread is scheduled and every call it makes returns (a capture in flight
\* terminates), time passes, and a join that can return does
FairLive ==
    /\ \A t \in ThreadIds : WF_vars(ThreadStep(t))
    /\ WF_vars(TickSecond)
    /\ WF_vars(JoinReturn \/ JoinTimesOut)

SpecLive == InitLive /\ [][NextLive]_vars /\ FairLive

\* ------------------------------------------------------------- timed runs
\* tests/test_sccpt.py: start(interval=...), time.sleep(run), stop(), with a backend that
\* succeeds at once. Only time.sleep takes time: a slice of the loop lasts SleepSlice to
\* SleepSlice + SleepJitter ticks, every other step is taken as soon as it is enabled.

\* stop() has returned
RunOver == worker_thread # 0 /\ ~running /\ callerpc = "idle"

\* worker = sccpt.start(interval=...)
TimedStart ==
    /\ now = 0
    /\ worker_thread = 0
    /\ Start(None)

\* time.sleep(run); sccpt.stop()
TimedStop ==
    /\ now = run_length
    /\ running
    /\ Stop

\* the stub backend: a file is written at once
BackendInstant(t) == BackendReturn(t, "file")

\* one slice of 10 ms passes while every loop sleeps and the caller waits
TickSlice ==
    /\ worker_thread # 0
    /\ ~RunOver
    /\ ~(now = run_length /\ running)
    /\ callerpc = "joining" => Alive(worker_thread)
    /\ \A t \in ThreadIds :
         Alive(t) => threads[t].pc = "sleep" /\ now < threads[t].wake + SleepJitter
    /\ now' = now + SleepSlice
    /\ last' = Event("clock", FALSE, None, "none")
    /\ UNCHANGED <<running, session_id, screenshot_count, worker_thread, interval_sec,
                   on_capture, on_error, threads, callerpc, join_deadline, run_length, succ,
                   cacheVars, callVars, mgrVars>>

InitTimed ==
    /\ WorkerInit
    /\ \E run \in {<<TestInterval, TestRun>>, <<DefaultInterval, DefaultRun>>} :
         interval_sec = run[1] /\ run_length = run[2]
    /\ on_capture \in BOOLEAN
    /\ on_error = FALSE
    /\ CacheUnused
    /\ CallUnused

NextTimed ==
    \/ TimedStart
    \/ TimedStop
    \/ JoinReturn
    \/ \E t \in ThreadIds : LoopEnter(t)
    \/ \E t \in ThreadIds : LoopTest(t)
    \/ \E t \in ThreadIds : TakeScreenshot(t)
    \/ \E t \in ThreadIds : BackendInstant(t)
    \/ \E t \in ThreadIds : IncrementCount(t)
    \/ \E t \in ThreadIds : \E raises \in BOOLEAN : OnCapture(t, raises)
    \/ \E t \in ThreadIds : SleepReturn(t)
    \/ TickSlice

SpecTimed == InitTimed /\ [][NextTimed]_vars

\* ------------------------------------------------ runs of the cache manager
\* an entry a capture could have left: a regular file of some size and age, which
\* unlink() can or cannot remove
Entries == [present : {TRUE}, size : 1..MaxSize, mtime : 1..MaxMtime, locked : BOOLEAN]

\* the other entries: a text file and a subdirectory
Plain == [present |-> TRUE, size |-> 1, mtime |-> 1, locked |-> FALSE]

InitCache ==
    /\ WorkerInit
    /\ interval_sec = DefaultInterval /\ on_capture = FALSE /\ on_error = FALSE
    /\ run_length = 0
    /\ dir_exists \in BOOLEAN
    /\ dir \in [Names -> Entries \cup {NoFile, Plain}]
    /\ \A n \in Names : /\ ~dir_exists => dir[n] = NoFile
                        /\ n \in {"notes.txt", "sub.png"} => dir[n] \in {NoFile, Plain}
    /\ max_size_bytes \in 0..MaxBudget
    /\ cache_pc = "ready"
    /\ before = [n \in Names |-> NoFile]
    /\ failed = {}
    /\ written = {}
    /\ passes = NoPasses
    /\ CallUnused

NextCache == ManageCacheSize

SpecCache == InitCache /\ [][NextCache]_vars

\* a directory that exists and holds at most two capture files, the other names free
InitWriters ==
    /\ WorkerInit
    /\ interval_sec = DefaultInterval /\ on_capture = FALSE /\ on_error = FALSE
    /\ run_length = 0
    /\ dir_exists = TRUE
    /\ dir \in [Names -> Entries \cup {NoFile}]
    /\ \A n \in {"c.jpg", "notes.txt", "sub.png"} : dir[n] = NoFile
    /\ max_size_bytes \in 1..MaxBudget
    /\ cache_pc = "ready"
    /\ before = [n \in Names |-> NoFile]
    /\ failed = {}
    /\ written = {}
    /\ passes = NoPasses
    /\ CallUnused

\* calls of _manage_cache_size with and without other writers in between
NextWriters ==
    \/ ScanBegin
    \/ \E n \in Names : \E size \in 1..MaxSize : \E locked \in BOOLEAN :
         WriterAdds(n, size, locked)
    \/ EvictEnd
    \/ NextCall
    \/ ManageCacheSize

SpecWriters == InitWriters /\ [][NextWriters]_vars

\* a directory that exists and holds at most two capture files, the other names free;
\* `before` keeps it as it was
InitPasses ==
    /\ WorkerInit
    /\ interval_sec = DefaultInterval /\ on_capture = FALSE /\ on_error = FALSE
    /\ run_length = 0
    /\ dir_exists = TRUE
    /\ dir \in [Names -> Entries \cup {NoFile}]
    /\ \A n \in {"c.jpg", "notes.txt", "sub.png"} : dir[n] = NoFile
    /\ max_size_bytes \in 1..MaxBudget
    /\ cache_pc = "ready"
    /\ before = dir
    /\ failed = {}
    /\ written = {}
    /\ passes = NoPasses
    /\ CallUnused

\* two calls of _manage_cache_size and other writers, interleaved step by step
NextPasses ==
    \/ \E p \in PassIds : PassList(p)
    \/ \E p \in PassIds : \E between \in BOOLEAN : PassStat(p, between)
    \/ \E p \in PassIds : PassUnlink(p)
    \/ \E n \in Names : \E size \in 1..MaxSize : \E locked \in BOOLEAN :
         WriterMoves(n, size, locked)

SpecPasses == InitPasses /\ [][NextPasses]_vars

\* ------------------------------------------- runs of the message segment
\* a run of n equal characters
Run(c, n) == [i \in 1..n |-> c]

\* the lengths of the runs a message is made of: one character, or one short of the
\* limit, so that three runs exceed the long message of the tests
RunLens == {1, SegmentLimit - 1}

RECURSIVE Messages(_)
\* the messages of at most n runs
Messages(n) ==
    IF n = 0 THEN {<<>>}
    ELSE LET shorter == Messages(n - 1)
         IN shorter \cup {m \o Run(c, k) : m \in shorter, c \in Alphabet, k \in RunLens}

InitName ==
    /\ WorkerInit
    /\ interval_sec = DefaultInterval /\ on_capture = FALSE /\ on_error = FALSE
    /\ run_length = 0
    /\ CacheUnused
    /\ \E m \in {NoneMessage} \cup Messages(MaxRuns) : cap = [NoCall EXCEPT !.message = m]
    /\ env = NoPlatform /\ shot = NoShot
    /\ ManagerUnused

NextName == NormalizeMessage

SpecName == InitName /\ [][NextName]_vars

\* ---------------------------------------------- runs of the capture strategies
InitBackend ==
    /\ WorkerInit
    /\ interval_sec = DefaultInterval /\ on_capture = FALSE /\ on_error = FALSE
    /\ run_length = 0
    /\ CacheUnused
    /\ cap = NoCall
    /\ env \in Platforms
    /\ shot = NoShot
    /\ ManagerUnused

NextBackend == Acquire

SpecBackend == InitBackend /\ [][NextBackend]_vars

\* ------------------------------------------------- runs of the classifier
\* the messages passed with a capture: none, plain words, one with an error word, one
\* with a warning word (a word standing for its letters)
ClassifyMessages == {NoneMessage, <<"a", " ", "a">>, <<"a", " ", "error">>, <<"warn">>}

InitClassify ==
    /\ WorkerInit
    /\ interval_sec = DefaultInterval /\ on_capture = FALSE /\ on_error = FALSE
    /\ run_length = 0
    /\ CacheUnused
    /\ \E m \in ClassifyMessages : \E sc \in PixelScenes : \E c \in Contexts :
         cap = [NoCall EXCEPT !.message = m, !.scene = sc, !.context = c]
    /\ env = NoPlatform /\ shot = NoShot
    /\ ManagerUnused

NextClassify == ClassifyCapture \/ ClassifyAgain

SpecClassify == InitClassify /\ [][NextClassify]_vars

\* --------------------------------------------------------- runs of capture()
\* the messages passed to capture(): none, words, punctuation only
CaptureMessages == {NoneMessage, <<"a", " ", "a">>, <<"!">>}

\* the paths passed to capture(): none, a plain one, one with the timestamp
\* placeholder, a relative one, one in the cache directory written with ~
Templates ==
    {NonePath,
     <<"/", "tmp", "/", "out", ".jpg">>,
     <<"/", "tmp", "/", "test-", "<timestamp>", ".jpg">>,
     <<".", "/", "out", ".png">>,
     <<"~", "/", ".cache", "/", "sccpt", "/", "out", ".jpg">>}

InitCapture ==
    /\ WorkerInit
    /\ interval_sec = DefaultInterval /\ on_capture = FALSE /\ on_error = FALSE
    /\ run_length = 0
    /\ dir_exists \in BOOLEAN
    /\ \E old \in {e \in Entries : e.mtime = 1} \cup {NoFile} :
         /\ ~dir_exists => old = NoFile
         /\ dir = [n \in Names |-> IF n = "a.jpg" THEN old ELSE NoFile]
    /\ max_size_bytes \in 0..MaxBudget
    /\ cache_pc = "ready"
    /\ before = [n \in Names |-> NoFile]
    /\ failed = {}
    /\ written = {}
    /\ passes = NoPasses
    /\ \E m \in CaptureMessages : \E t \in Templates :
         cap = [NoCall EXCEPT !.message = m, !.path = t]
    /\ env = NoPlatform /\ shot = NoShot
    /\ ManagerUnused

\* the steps capture() can fail at after the acquisition
Faults == {"none", "mkdir", "rename", "save", "write"}

\* a call of capture(); what a call whose acquisition failed does not read is left out
NextCapture ==
    /\ cap.pc = "entry"
    /\ \E outcome \in {"file", "nofile", "exception"} :
      IF outcome # "file"
        THEN Capture(TRUE, NoScene, outcome, 1, "none")
        ELSE \E auto_categorize \in BOOLEAN : \E scene \in Scenes :
               \E size \in 1..MaxSize : \E fault \in Faults :
                 Capture(auto_categorize, scene, outcome, size, fault)

SpecCapture == InitCapture /\ [][NextCapture]_vars

\* ------------------------------------------- runs of two calls of capture()
\* the clock reads: the first and the last microsecond of each millisecond
ClockReads == {k * MicrosPerMilli + r : k \in 0..MaxMillis, r \in {0, MicrosPerMilli - 1}}

\* two calls of capture() with the default path into an empty cache directory whose
\* budget holds both files
InitRapid ==
    /\ WorkerInit
    /\ interval_sec = DefaultInterval /\ on_capture = FALSE /\ on_error = FALSE
    /\ run_length = 0
    /\ dir_exists = TRUE
    /\ dir = [n \in Names |-> NoFile]
    /\ max_size_bytes = 2 * MaxSize
    /\ cache_pc = "ready"
    /\ before = [n \in Names |-> NoFile]
    /\ failed = {}
    /\ written = {}
    /\ passes = NoPasses
    /\ \E m \in CaptureMessages : \E micros \in ClockReads :
         cap = [NoCall EXCEPT !.message = m, !.clock = micros,
                              !.context = [NoContext EXCEPT !.ts = Timestamp(micros)]]
    /\ env = NoPlatform /\ shot = NoShot
    /\ ManagerUnused

NextRapid ==
    \/ NextCapture
    \/ \E m \in CaptureMessages : \E micros \in ClockReads : CaptureAgain(m, micros)

SpecRapid == InitRapid /\ [][NextRapid]_vars

\* --------------------------------------------------- runs of the manager
\* a process with the module's manager and the MCP server; the marker file may be left
\* over from an earlier process
InitManager ==
    /\ WorkerInit
    /\ interval_sec = DefaultInterval /\ on_capture = FALSE /\ on_error = FALSE
    /\ run_length = 0
    /\ CacheUnused
    /\ cap = NoCall /\ env = NoPlatform /\ shot = NoShot
    /\ mgr = NoManager
    /\ \E marker \in BOOLEAN : mcp = [marker |-> marker, reply |-> Reply("none", FALSE, FALSE)]

Endings == {"ok", "failed", "overrun"}

NextManager ==
    \/ \E interval \in {TestInterval, DefaultInterval} : ManagerStartCapture(interval)
    \/ \E ending \in Endings : ManagerStopCapture(ending)
    \/ \E w \in 1..MaxWorkers : WorkerLoopBegin(w)
    \/ \E w \in 1..MaxWorkers : \E ok \in BOOLEAN : WorkerLoopEnd(w, ok)
    \/ \E interval \in {TestInterval, DefaultInterval} :
         \E fault \in {"none", "start", "marker"} : StartMonitoring(interval, fault)
    \/ \E ending \in Endings : \E fault \in {"none", "unlink"} : StopMonitoring(ending, fault)

SpecManager == InitManager /\ [][NextManager]_vars

\* ------------------------------------------------ runs of the MCP server
\* a process in which only the MCP tools start and stop the monitor, begun with no
\* marker file and no worker
InitMcp ==
    /\ WorkerInit
    /\ interval_sec = DefaultInterval /\ on_capture = FALSE /\ on_error = FALSE
    /\ run_length = 0
    /\ CacheUnused
    /\ cap = NoCall /\ env = NoPlatform /\ shot = NoShot
    /\ ManagerUnused

\* the calls of the two tools, the start and the stop of the monitor themselves never
\* failing, and the steps of the workers' loops
NextMcp ==
    \/ \E interval \in {TestInterval, DefaultInterval} :
         \E fault \in {"none", "marker"} : StartMonitoring(interval, fault)
    \/ \E ending \in Endings : \E fault \in {"none", "unlink"} : StopMonitoring(ending, fault)
    \/ \E w \in 1..MaxWorkers : WorkerLoopBegin(w)
    \/ \E w \in 1..MaxWorkers : \E ok \in BOOLEAN : WorkerLoopEnd(w, ok)

SpecMcp == InitMcp /\ [][NextMcp]_vars

\* =================================================================== claims

\* C1: within one worker, captures are strictly sequential: never two capture attempts
\* (two background loops inside _take_screenshot) in flight at once, for every sequence
\* of start() and stop() calls.
C1_SequentialCaptures ==
    \A t1, t2 \in ThreadIds : (InFlight(t1) /\ InFlight(t2)) => t1 = t2

\* C2: start() on a running worker is a no-op: session id, capture-count, thread handle
\* and the set of loops are unchanged, whatever session argument is passed.
C2_IdempotentStart ==
    [][(last'.op = "start" /\ last'.flag)
        => UNCHANGED <<running, session_id, screenshot_count, worker_thread, threads>>]_vars

C2_Witness ==
    /\ last.op = "start" /\ last.flag
    /\ last.arg = "s1" /\ session_id # "s1"
    /\ screenshot_count > 0

\* C3: stop() on a worker that is not running returns at once and leaves running,
\* session id, capture-count and the thread handle unchanged.
C3_StopWhenIdle ==
    [][(last'.op = "stop" /\ ~last'.flag)
        => /\ UNCHANGED <<running, session_id, screenshot_count, worker_thread, threads>>
           /\ callerpc' = "idle"]_vars

C3_Witness ==
    /\ last.op = "stop" /\ ~last.flag
    /\ worker_thread # 0 /\ Alive(worker_thread)
    /\ screenshot_count > 0

\* the step is a return of stop(): at once, or out of its join
StopReturns == last'.op \in {"stop", "join"} /\ callerpc' = "idle"

\* C4 as stated: a start() from Idle sets running, resets capture-count to 0 and assigns
\* the supplied session id whenever one is given; after stop() returns running is false.
C4_LifecycleAsStated ==
    [][/\ (last'.op = "start" /\ ~last'.flag)
            => /\ running' /\ screenshot_count' = 0
               /\ (last'.arg # None => session_id' = last'.arg)
       /\ StopReturns => ~running']_vars

\* C4 amended: as stated, except that the supplied session id is assigned only when it
\* is non-empty; an empty string gets the timestamp default, as an absent one does.
C4_Lifecycle ==
    [][/\ (last'.op = "start" /\ ~last'.flag)
            => /\ running' /\ screenshot_count' = 0
               /\ (last'.arg \notin {None, ""} => session_id' = last'.arg)
               /\ (last'.arg \in {None, ""} => session_id' = Strftime(now))
       /\ StopReturns => ~running'
       /\ running' \in BOOLEAN]_vars

C4_Witness ==
    /\ last.op = "start" /\ ~last.flag /\ last.arg = ""
    /\ running /\ screenshot_count = 0 /\ session_id = Strftime(now)
    /\ now > 0

\* C5: every failed capture attempt of the loop invokes on_error, when one is configured.
C5_FailureCallsOnError ==
    (last.op = "attempt_failed" /\ on_error) => last.notified = "on_error"

\* C6: at every moment capture-count equals the number of successful attempts since the
\* start() that began the run.
C6_CountIsSuccesses == screenshot_count = succ

C8_TimedCount ==
    RunOver =>
      /\ (interval_sec = TestInterval /\ run_length = TestRun)
            => (screenshot_count >= 8 /\ screenshot_count <= 11 /\ screenshot_count >= 3)
      /\ (interval_sec = DefaultInterval /\ run_length = DefaultRun)
            => screenshot_count >= 2

C8_Witness ==
    /\ RunOver /\ interval_sec = TestInterval /\ run_length = TestRun
    /\ now >= TestRun
    /\ screenshot_count = 11
    /\ \A t \in ThreadIds : ~Alive(t)

\* the files the call deleted
Evicted == CaptureFiles(before) \ CaptureFiles(dir)

\* C9: after _manage_cache_size returns, with no concurrent writer, either the capture
\* files left total at most the budget, or every capture file left is one whose deletion
\* was attempted and failed.
C9_BudgetOrLocked ==
    cache_pc = "returned" =>
      \/ SetSize(dir, CaptureFiles(dir)) <= max_size_bytes
      \/ \A n \in CaptureFiles(dir) : n \in failed

C9_Witness ==
    /\ cache_pc = "returned"
    /\ SetSize(dir, CaptureFiles(dir)) > max_size_bytes
    /\ Evicted # {} /\ failed # {}
    /\ dir["notes.txt"].present /\ dir["sub.png"].present

\* C10: eviction is oldest-first: no deleted file d and retained file r such that r is
\* older than d and r could have been deleted.
C10_OldestFirst ==
    cache_pc = "returned" =>
      \A d \in Evicted : \A r \in CaptureFiles(dir) :
        ~(before[r].mtime < before[d].mtime /\ ~before[r].locked)

C10_Witness ==
    /\ cache_pc = "returned"
    /\ SetSize(dir, CaptureFiles(dir)) <= max_size_bytes
    /\ \E d \in Evicted : \E r \in CaptureFiles(dir) :
         before[r].mtime < before[d].mtime /\ before[r].locked
    /\ \E d \in Evicted : \E r \in CaptureFiles(dir) :
         before[r].mtime >= before[d].mtime /\ ~before[r].locked

\* C11: the budget pass runs after every persisted capture: a background loop that has
\* persisted a capture since start() begins its next capture only after
\* _manage_cache_size has run.
C11_BudgetAfterPersist ==
    \A t \in ThreadIds : (threads[t].pc = "backend" /\ succ > 0) => cache_pc = "returned"

\* the message segment of the filename without its leading separator hyphen
Segment == IF cap.normalized_msg = <<>> THEN <<>> ELSE Tail(cap.normalized_msg)

\* C17: the normalized segment is built from the message's first line only and consists
\* solely of alphanumeric characters and single hyphens (underscores and every other
\* character are removed), and it neither starts nor ends with a hyphen, also after
\* truncation.
C17_NormalizedSegment ==
    cap.pc = "named" =>
      /\ cap.normalized_msg = NormalizedMsg(IF cap.message = NoneMessage THEN NoneMessage
                                            ELSE FirstLine(cap.message))
      /\ \A i \in 1..Len(Segment) : Segment[i] \in {"a", "-"}
      /\ \A i \in 1..(Len(Segment) - 1) : ~(Segment[i] = "-" /\ Segment[i + 1] = "-")
      /\ Segment # <<>> => (Segment[1] # "-" /\ Segment[Len(Segment)] # "-")

\* C18: for a message of any length the normalized segment, not counting its leading
\* separator hyphen, has at most 50 characters.
C18_SegmentAtMostLimit == cap.pc = "named" => Len(Segment) <= SegmentLimit

C18_Witness ==
    /\ cap.pc = "named"
    /\ cap.message # NoneMessage /\ Len(cap.message) >= LongMessage
    /\ Len(Segment) = SegmentLimit

\* C16: a success of _take_screenshot is never zero-byte: whenever it returns a path, on
\* every platform and for every target, the file at that path holds a non-empty image.
C16_NoEmptySuccess == (shot.pc = "returned" /\ shot.path # None) => shot.file = "image"

\* C20: the classifier is deterministic: two classifications with the same
\* exception-context flag, the same pixel content and the same message yield the same
\* category, whatever the time, the temporary file and the earlier history.
C20_ClassifierDeterministic ==
    (cap.pc = "classified" /\ cap.earlier # "none") => cap.category = cap.earlier

C20_Witness ==
    /\ cap.pc = "classified" /\ cap.earlier = "error" /\ cap.category = "error"
    /\ cap.step = "pixels"
    /\ cap.context = [ts |-> "T1", use_jpeg |-> FALSE, last_type |-> TRUE]

\* capture() has returned a path
ReturnedPath == cap.pc = "returned" /\ cap.result # NoneResult

\* the channel suffix in a filename of the default template: the token before the extension
ChannelSuffix == cap.result[Len(cap.result) - 1]

\* C12: every capture persisted by capture() with the default template has the suffix
\* "-stdout" when the category is normal and "-stderr" when it is warning or error
\* (exception context, pixel heuristic, keyword), and never another suffix.
C12_SuffixMapping ==
    (ReturnedPath /\ cap.path = NonePath) =>
      /\ ChannelSuffix \in {"-stdout", "-stderr"}
      /\ cap.step \in {"exception", "pixels", "keyword"} => ChannelSuffix = "-stderr"
      /\ cap.step \in {"default", "off"} => ChannelSuffix = "-stdout"

\* C13: whenever capture() returns a path, a file exists at that path at the moment of
\* return, whatever the budget and the destination.
C13_ReturnedFileExists == ReturnedPath => cap.exists

\* C14: when the acquisition fails, capture() returns None and has no other effect: no
\* classification, no file moved to the destination, no metadata written, no eviction
\* pass, the cache directory as it was.
C14_FailedAcquisitionNoEffect ==
    [][(cap.pc = "entry" /\ cap'.pc # "entry" /\ cap'.acquired \in {"nofile", "exception"})
         => /\ cap'.pc = "returned" /\ cap'.result = NoneResult
            /\ cap'.ran = {} /\ cap'.metadata = "none" /\ cap'.step = "none"
            /\ UNCHANGED cacheVars]_vars

C14_Witness ==
    /\ cap.pc = "returned" /\ cap.acquired = "exception" /\ cap.result = NoneResult
    /\ cap.path = NonePath /\ cap.message = <<"a", " ", "a">>
    /\ cache_pc = "ready"
    /\ dir["a.jpg"].present /\ ~dir["a.jpg"].locked /\ dir["a.jpg"].size > max_size_bytes

\* C15: a failure after the acquisition (the move to the final path, the metadata, the
\* eviction pass) never propagates out of capture() as an exception.
C15_NoExceptionEscapes == cap.pc # "raised"

\* the template holds a placeholder
HasPlaceholder(path) ==
    \E i \in 1..Len(path) : path[i] \in {"<timestamp>", "<message>", "<category_suffix>"}

\* the explicit path of the call with a leading ~ replaced by the home directory
HomeExpanded == IF cap.path[1] = "~" THEN <<"/", "home">> \o Tail(cap.path) ELSE cap.path

\* the tokens of a path that are neither separators nor "." parts
Words(path) == SelectSeq(path, LAMBDA t : t \notin {"/", "."})

\* C19 as stated: for an explicit path without placeholder capture() returns exactly
\* that path, but for the expansion of a leading ~; for one with <timestamp> the
\* returned path no longer holds the placeholder.
C19_TemplateUnchangedAsStated ==
    (ReturnedPath /\ cap.path # NonePath) =>
      /\ ~HasPlaceholder(cap.path) => cap.result = HomeExpanded
      /\ \A i \in 1..Len(cap.result) : cap.result[i] # "<timestamp>"

\* C19 amended: the returned path is the explicit path, after the expansion of a leading
\* ~, as pathlib writes it: the same names in the same order, absolute or relative as
\* before, with repeated separators, "." parts and a trailing separator dropped; for a
\* path with <timestamp> it no longer holds the placeholder.
C19_TemplateNormalized ==
    (ReturnedPath /\ cap.path # NonePath) =>
      /\ ~HasPlaceholder(cap.path) =>
           /\ Words(cap.result) = Words(HomeExpanded)
           /\ (cap.result[1] = "/") <=> (HomeExpanded[1] = "/")
           /\ \A i \in 1..Len(cap.result) : cap.result[i] # "."
           /\ \A i \in 1..(Len(cap.result) - 1) :
                ~(cap.result[i] = "/" /\ cap.result[i + 1] = "/")
           /\ cap.result[Len(cap.result)] # "/"
      /\ \A i \in 1..Len(cap.result) : cap.result[i] # "<timestamp>"

C19_Witness ==
    /\ ReturnedPath
    /\ cap.path = <<"~", "/", ".cache", "/", "sccpt", "/", "out", ".jpg">>
    /\ cap.result = <<"/", "home", "/", ".cache", "/", "sccpt", "/", "out", ".jpg">>
    /\ cap.category = "error" /\ cap.message = <<"a", " ", "a">>

\* C21: any two successful captures with the default template are persisted under
\* different paths, also when they are taken within the same clock millisecond with the
\* same message and category.
C21_DistinctPaths ==
    (cap.pc = "returned" /\ cap.path = NonePath
       /\ cap.previous # NoneResult /\ cap.result # NoneResult)
      => cap.result # cap.previous

\* the workers the manager created whose flag is set
RunningWorkers(m) == {w \in 1..Len(m.objs) : m.objs[w].running}

\* C22: after every call of the manager at most one worker it created has running =
\* true, and a start_capture while its worker is running creates no worker and returns
\* the existing one with its settings, session and capture-count unchanged.
C22_SingleSlot ==
    [][/\ Cardinality(RunningWorkers(mgr')) <= 1
       /\ (mgr'.call # mgr.call /\ mgr'.call.op = "start_capture" /\ mgr'.call.busy)
            => /\ mgr'.objs = mgr.objs
               /\ mgr'.worker = mgr.worker
               /\ mgr'.call.returned = mgr.worker
               /\ mgr.objs[mgr.worker].running]_vars

C22_Witness ==
    /\ mgr.call.op = "start_capture" /\ mgr.call.busy
    /\ Len(mgr.objs) = 2 /\ mgr.worker = 2
    /\ mgr.objs[2].screenshot_count > 0
    /\ mgr.objs[2].interval_sec = TestInterval
    /\ ~mgr.objs[1].running /\ mgr.objs[1].loop = "capturing"

\* C23: start_monitoring called while the marker file exists, and stop_monitoring called
\* while it does not, return success = false and change nothing: the marker is neither
\* created nor removed and no worker is started or stopped.
C23_MonitoringGuard ==
    [][/\ (mcp'.reply # mcp.reply /\ mcp'.reply.tool = "start_monitoring" /\ mcp.marker)
            => (~mcp'.reply.success /\ mcp'.marker /\ UNCHANGED mgr)
       /\ (mcp'.reply # mcp.reply /\ mcp'.reply.tool = "stop_monitoring" /\ ~mcp.marker)
            => (~mcp'.reply.success /\ ~mcp'.marker /\ UNCHANGED mgr)]_vars

C23_Witness ==
    /\ mcp.reply = Reply("stop_monitoring", TRUE, FALSE)
    /\ ~mcp.marker
    /\ mgr.worker # 0 /\ mgr.objs[mgr.worker].running

\* C24: after each capture attempt the loop sets the next due time to the time read at
\* the start of that attempt plus the interval; hence two consecutive attempts of one
\* loop start at least one interval apart, and after an attempt that lasted several
\* intervals the next due time lies one interval after the start of the one attempt
\* that follows: missed intervals are not replayed.
C24_DriftRule ==
    [][\A t \in ThreadIds :
         /\ (threads[t].pc \in {"backend", "incr", "callback"} /\ threads'[t].pc = "sleep")
              => threads'[t].next_capture_time = threads[t].started + interval_sec
         /\ (threads[t].pc = "while" /\ threads'[t].pc = "take" /\ threads[t].started >= 0)
              => threads'[t].started >= threads[t].started + interval_sec]_vars

\* an attempt begun at 0 lasted two intervals; the one attempt that followed began at
\* 2 s, and the next is due at 3 s
C24_Witness ==
    \E t \in ThreadIds :
      /\ threads[t].pc = "sleep" /\ interval_sec = SecondTicks
      /\ now = 2 * SecondTicks /\ threads[t].started = 2 * SecondTicks
      /\ threads[t].next_capture_time = 3 * SecondTicks
      /\ screenshot_count = 2

\* C25: once stop() has cleared the flag, and unless a later start() sets it again, every
\* background loop eventually exits, given that its capture in flight terminates; a loop
\* with no capture in flight exits at its next test of the flag, without a further
\* capture or sleep slice; and stop() returns, out of its join or when the join gives
\* up, and a join that gives up leaves the loop alive.
C25_StopTerminates ==
    /\ \A t \in ThreadIds : (~running /\ Alive(t)) ~> (running \/ ~Alive(t))
    /\ (callerpc = "joining") ~> (callerpc = "idle")
    /\ [][/\ \A t \in ThreadIds :
               (~running /\ ~running' /\ threads[t].pc = "while" /\ threads'[t] # threads[t])
                 => ~Alive(t)'
          /\ (last'.op = "join" /\ last'.arg = "timeout")
               => (threads' = threads /\ Alive(worker_thread)')]_vars

\* stop() gave up its join on a loop inside a capture, and that loop has exited since
C25_Witness ==
    /\ ~running /\ callerpc = "idle"
    /\ worker_thread # 0 /\ ~Alive(worker_thread)
    /\ join_deadline = 0 /\ now >= JoinTimeout
    /\ last.op = "loop" /\ screenshot_count > 0

\* C26: once stop() has returned and until the next start(), no capture file is
\* persisted, capture-count does not change and no callback is invoked.
C26_QuiescentAfterStop ==
    [][(~running /\ callerpc = "idle" /\ worker_thread # 0 /\ ~running')
         => /\ screenshot_count' = screenshot_count
            /\ last'.op # "attempt_ok"
            /\ last'.notified = "none"]_vars

\* C27: a start() without an explicit session id on a worker that was stopped assigns a
\* session id different from the one of the run before it (hence from that of every
\* earlier run), and while the worker is running the session id does not change.
C27_FreshSession ==
    [][/\ (last'.op = "start" /\ ~last'.flag /\ last'.arg = None /\ worker_thread # 0)
            => session_id' # session_id
       /\ (running /\ running') => session_id' = session_id]_vars

\* the capture files the call found: what its two scans add up
Scanned == SetSize(before, CaptureFiles(before))

\* C28: enforce_budget deletes only while its running total exceeds the budget: a scan
\* within the budget leaves every entry as it was; otherwise entries other than the
\* deleted ones are untouched, the newest deleted file was deleted while the total was
\* still over the budget (the deletions are no more than needed), and, when no deletion
\* failed, the deleted files are an oldest-first prefix that brings the total within it.
C28_ShortestPrefix ==
    cache_pc = "returned" =>
      /\ Scanned <= max_size_bytes => dir = before
      /\ \A n \in DOMAIN dir : n \notin Evicted => dir[n] = before[n]
      /\ Evicted # {} =>
           /\ Scanned > max_size_bytes
           /\ \E n \in Evicted :
                /\ \A k \in Evicted : before[k].mtime <= before[n].mtime
                /\ SetSize(dir, CaptureFiles(dir)) + before[n].size > max_size_bytes
      /\ (Scanned > max_size_bytes /\ failed = {}) =>
           /\ SetSize(dir, CaptureFiles(dir)) <= max_size_bytes
           /\ \A d \in Evicted : \A r \in CaptureFiles(dir) : before[d].mtime <= before[r].mtime

C28_Witness ==
    /\ cache_pc = "returned"
    /\ Scanned > max_size_bytes /\ failed = {}
    /\ Cardinality(Evicted) = 2 /\ CaptureFiles(dir) # {}
    /\ \E d \in Evicted : SetSize(dir, CaptureFiles(dir)) + before[d].size <= max_size_bytes
    /\ SetSize(dir, CaptureFiles(dir)) > 0

\* the capture files of the scan that unlink() cannot remove
Undeletable == {n \in CaptureFiles(before) : before[n].locked}

\* C29: a failed deletion is swallowed per file: the file stays as it was, its size stays
\* in the running total, the loop goes on to the newer files (each is deleted unless the
\* total had come within the budget by the sizes of the deleted files alone), every
\* undeletable file older than a deleted one was tried, and the call has returned.
C29_FailureSkipped ==
    cache_pc = "returned" =>
      /\ failed \subseteq Undeletable
      /\ \A f \in failed : dir[f] = before[f]
      /\ failed # {} => Scanned > max_size_bytes
      /\ \A f \in failed : \A r \in CaptureFiles(before) \ Undeletable :
           before[r].mtime > before[f].mtime
             => (r \in Evicted \/ Scanned - SetSize(before, Evicted) <= max_size_bytes)
      /\ \A d \in Evicted : \A f \in Undeletable :
           before[f].mtime < before[d].mtime => f \in failed

C29_Witness ==
    /\ cache_pc = "returned"
    /\ \E f \in failed : \E d \in Evicted :
         /\ before[d].mtime > before[f].mtime
         /\ SetSize(dir, CaptureFiles(dir)) + before[d].size - before[f].size <= max_size_bytes
    /\ CaptureFiles(dir) \ failed # {}

\* C30: the budget corrects itself: a call of _manage_cache_size that runs with no other
\* writer, whatever writers added during or after earlier calls, leaves the capture
\* files within the budget, or leaves only files whose deletion it tried and failed.
C30_SelfCorrecting ==
    [][(cache_pc = "ready" /\ cache_pc' = "returned") =>
         \/ SetSize(dir', CaptureFiles(dir')) <= max_size_bytes
         \/ \A n \in CaptureFiles(dir') : n \in failed']_vars

C30_Witness ==
    /\ cache_pc = "returned"
    /\ written # {} /\ written \cap CaptureFiles(before) # {}
    /\ Scanned > max_size_bytes
    /\ Evicted # {}
    /\ SetSize(dir, CaptureFiles(dir)) <= max_size_bytes
    /\ CaptureFiles(dir) # {}

\* the files of the directory as it was that are no longer there
Removed == CaptureFiles(before) \ CaptureFiles(dir)

\* C31: calls of _manage_cache_size that run side by side never together delete more
\* old files than needed: while every file written meanwhile is still there, the newest
\* file deleted was one without which the directory would still be over its budget.
C31_NoOverDeletion ==
    (Removed # {} /\ written \subseteq CaptureFiles(dir)) =>
      \E n \in Removed :
        /\ \A k \in Removed : before[k].mtime <= before[n].mtime
        /\ SetSize(dir, CaptureFiles(dir)) + before[n].size > max_size_bytes

\* C32: a call of _manage_cache_size never raises when a file it listed is gone before
\* it reads or deletes it.
C32_VanishedSkipped ==
    \A p \in PassIds : passes[p].pc # "raised"

\* the message holds one of the words
MessageHasWord(message, words) ==
    message # NoneMessage /\ \E i \in 1..Len(message) : message[i] \in words

\* the fraction of the counted pixels is strictly above 5%
Exceeds(count) == 100 * count > 5 * TotalPixels

\* the category the decision list gives a capture
ListCategory(scene, message) ==
    IF scene.exc THEN "error"
    ELSE IF Exceeds(scene.red) THEN "error"
    ELSE IF Exceeds(scene.yellow) THEN "warning"
    ELSE IF MessageHasWord(message, ErrorWords) THEN "error"
    ELSE IF MessageHasWord(message, WarnWords) THEN "warning"
    ELSE "normal"

\* the values of the category variable that stand for a category of the list: the
\* category word itself or the word of its channel
Stands(value, category) ==
    CASE category = "error" -> value \in {"error", "stderr"}
      [] category = "warning" -> value \in {"warning", "stderr"}
      [] OTHER -> value = "stdout"

\* C33: classification follows the decision list, first match wins: exception context
\* gives error; else more than 5% red pixels give error; else more than 5% yellow pixels
\* give warning; else the words of the message decide; else the capture is normal.
C33_DecisionList ==
    cap.pc = "classified" => Stands(cap.category, ListCategory(cap.scene, cap.message))

\* C34: with no exception context and neither pixel threshold exceeded, a capture whose
\* message holds an error word or a warning word is classified so and goes to the
\* -stderr channel.
C34_KeywordFallback ==
    (/\ cap.pc = "classified"
     /\ ~cap.scene.exc /\ ~Exceeds(cap.scene.red) /\ ~Exceeds(cap.scene.yellow)
     /\ (MessageHasWord(cap.message, ErrorWords) \/ MessageHasWord(cap.message, WarnWords)))
      => cap.category = "stderr"

\* the caller gave no message, or one of which the normalization leaves nothing
NothingToName ==
    \/ NoMessage(cap.message)
    \/ \A i \in 1..Len(FirstLine(cap.message)) :
         ~IsWord(FirstLine(cap.message)[i])

\* C35: without a message, or with one whose normalization is empty, the file name of
\* the default template is exactly <timestamp><channel-suffix>.<ext>, in every calling
\* context and for every category: no message segment and no stray hyphen.
C35_SegmentOmitted ==
    (ReturnedPath /\ cap.path = NonePath /\ NothingToName) =>
      cap.result = CacheRoot \o <<"/", cap.context.ts, ChannelSuffix, ".jpg">>

\* the strategies of the remote host, and the native ones
WindowsSteps == {"external", "inline"}

NativeSteps == {"mss", "scrot"}

\* C36: the strategies are tried in a fixed order, the remote-host script before the
\* native capture, and the first that succeeds wins: the native one is called only when
\* the remote-host one did not succeed, the count is incremented at most once, a file is
\* left only by the strategy that won, and no path is returned exactly when every
\* strategy called failed.
C36_FirstSuccessWins ==
    shot.pc = "returned" =>
      /\ \A i, j \in 1..Len(shot.tried) :
           (shot.tried[i] \in NativeSteps /\ shot.tried[j] \in WindowsSteps) => j < i
      /\ (\E i \in 1..Len(shot.tried) : shot.tried[i] \in NativeSteps) <=> shot.native # "untried"
      /\ shot.native # "untried" => shot.windows # "ok"
      /\ shot.windows # "untried" <=> env.wsl
      /\ shot.count <= 1
      /\ shot.count = 1 <=> shot.path # None
      /\ shot.path # None <=> (shot.windows = "ok" \/ shot.native = "ok")
      /\ shot.path = None => (shot.native = "failed" /\ shot.file = "absent")

C36_Witness ==
    /\ shot.pc = "returned"
    /\ env.wsl /\ shot.windows = "failed" /\ shot.native = "ok"
    /\ shot.tried = <<"external", "inline", "mss", "scrot">>
    /\ shot.count = 1 /\ shot.path # None

\* C37: the inline script is run only when the external script file is missing: with
\* the file there, no run of _take_screenshot executes the inline script, whatever the
\* probe of the interpreter and the run of the external script gave.
C37_InlineOnlyWithoutFile ==
    (shot.pc = "returned" /\ env.wsl /\ env.script_exists) =>
      ~(env.powershell /\ \E i \in 1..Len(shot.tried) : shot.tried[i] = "inline")

\* C38: begun with no marker and no worker, after any sequence of start_monitoring and
\* stop_monitoring calls in which the start and the stop themselves do not fail, the
\* .monitoring marker file exists exactly when the manager's worker is running.
C38_MarkerMirrors == MarkerExists(mcp) <=> (mgr.worker # 0 /\ mgr.objs[mgr.worker].running)

====
